---- MODULE Spec2Model ----
(***************************************************************************)
(* Model of Xapian::Database::check (xapian-core/backends/dbcheck.cc).     *)
(*                                                                         *)
(* One run of check(path, opts, out) is modelled as a sequential program   *)
(* whose position is pc.  Strings are sequences of one-character strings,  *)
(* so that suffix stripping, find_last_of('/'), tolower and str() are      *)
(* computed as the code computes them.  The filesystem is the set of the   *)
(* names that exist; a relative name is relative to the current directory, *)
(* which is not the filesystem root.                                       *)
(*                                                                         *)
(* The collaborators (ChertDatabase, Xapian::Database, GlassVersion,       *)
(* ChertVersion, check_chert_table, check_glass_table, GlassChanges::check *)
(* and the vector allocator) are outside dbcheck.cc: their results are     *)
(* chosen nondeterministically, and they throw exactly where dbcheck.cc    *)
(* has a handler for what they throw.                                      *)
(***************************************************************************)
EXTENDS Integers, Sequences, FiniteSets, TLC

VARIABLES
    build,      \* config.h: which backends are compiled in
    path,       \* argument: const string & path
    opts_arg,   \* argument: int opts, as the caller passed it
    out,        \* argument: TRUE iff the ostream pointer is non-null
    files,      \* the filesystem: the set of names that exist
    pc,         \* position in Database::check
    opts,       \* the local opts (masked at line 92)
    errors,     \* size_t errors
    doclens,    \* capacity of vector<termcount> doclens (0: never reserved)
    db_last_docid,
    rev,        \* chert_revision_number_t rev
    pre_table_check_errors,
    t,          \* index into tables[] (1-based)
    version_file, \* GlassVersion after read(): [revision, last_docid]
    r,          \* glass_revision_number_t r of the changes loop
    backend,    \* enum { UNKNOWN, CHERT, GLASS }
    filename,
    dir,
    tablename,
    calls,      \* the collaborator calls made so far, in order
    output,     \* what was written to *out, in order
    version_record, \* chert version file: "untouched" or "created"
    exc,        \* the exception that left check, or "none"
    result,     \* the value returned by check (meaningful when pc = "done")
    trace       \* steps of the run that are not visible otherwise

vars == << build, path, opts_arg, out, files, pc, opts, errors, doclens,
           db_last_docid, rev, pre_table_check_errors, t, version_file, r,
           backend, filename, dir, tablename, calls, output, version_record,
           exc, result, trace >>

----------------------------------------------------------------------------
(* Bounds of the model. *)

\* Largest error count one table check returns.
MaxTableErrors == 1
\* Largest revision number a database reports.
MaxRev == 2

----------------------------------------------------------------------------
(* Program constants. *)

\* Xapian::DBCHECK_FIX and one output-only option, DBCHECK_SHORT_TREE.
DBCHECK_FIX == 16
DBCHECK_SHORT_TREE == 1
\* sizeof(Xapian::termcount): termcount is a 32-bit unsigned.
SizeofTermcount == 4
\* Xapian::docid is a 32-bit unsigned.  A docid is held as its two 16-bit
\* halves, value = hi * 2^16 + lo.
Half == 2 ^ 16

Docid(n) == [ hi |-> n \div Half, lo |-> n % Half ]

\* static_cast<Xapian::docid>(-1)
MaxDocid == [ hi |-> Half - 1, lo |-> Half - 1 ]

\* a >= b on docids
DocidGE(a, b) == a.hi > b.hi \/ (a.hi = b.hi /\ a.lo >= b.lo)

\* a + 1 in the width of a docid
DocidSucc(a) ==
    IF a.lo = Half - 1 THEN [ hi |-> (a.hi + 1) % Half, lo |-> 0 ]
    ELSE [ hi |-> a.hi, lo |-> a.lo + 1 ]

\* A docid as a size_t element count.
Count(a) == a.hi * Half + a.lo

\* 0x40000000ul / sizeof(Xapian::termcount)
DoclensThreshold == Docid((2 ^ 30) \div SizeofTermcount)

\* Bitwise and of two option words (both below 32).
RECURSIVE BitAnd(_, _)
BitAnd(a, b) ==
    IF a = 0 \/ b = 0 THEN 0
    ELSE (IF a % 2 = 1 /\ b % 2 = 1 THEN 1 ELSE 0)
         + 2 * BitAnd(a \div 2, b \div 2)

----------------------------------------------------------------------------
(* Strings. *)

endswith(s, suffix) ==
    /\ Len(s) >= Len(suffix)
    /\ SubSeq(s, Len(s) - Len(suffix) + 1, Len(s)) = suffix

\* s.resize(s.size() - n)
Chop(s, n) == SubSeq(s, 1, Len(s) - n)

\* s.find_last_of(c): the 1-based index of the last c, or 0 for npos.
find_last_of(s, c) ==
    LET hits == { i \in 1..Len(s) : s[i] = c }
    IN  IF hits = {} THEN 0
        ELSE CHOOSE i \in hits : \A j \in hits : j <= i

\* tolower on the characters the model uses.
ToLowerChar(c) ==
    CASE c = "T" -> "t"
      [] c = "D" -> "d"
      [] c = "B" -> "b"
      [] OTHER   -> c

ToLower(s) == [ i \in 1..Len(s) |-> ToLowerChar(s[i]) ]

Digit(n) ==
    CASE n = 0 -> "0" [] n = 1 -> "1" [] n = 2 -> "2" [] n = 3 -> "3"
      [] n = 4 -> "4" [] n = 5 -> "5" [] n = 6 -> "6" [] n = 7 -> "7"
      [] n = 8 -> "8" [] n = 9 -> "9"

\* str(r): the decimal digits of r.
RECURSIVE str(_)
str(n) == IF n < 10 THEN << Digit(n) >> ELSE str(n \div 10) \o << Digit(n % 10) >>

iamchert  == << "/", "i", "a", "m", "c", "h", "e", "r", "t" >>
iamglass  == << "/", "i", "a", "m", "g", "l", "a", "s", "s" >>
iamflint  == << "/", "i", "a", "m", "f", "l", "i", "n", "t" >>
iambrass  == << "/", "i", "a", "m", "b", "r", "a", "s", "s" >>
record_DB == << "/", "r", "e", "c", "o", "r", "d", "_", "D", "B" >>
DotDB     == << ".", "D", "B" >>
DotGlass  == << ".", "g", "l", "a", "s", "s" >>
Changes   == << "/", "c", "h", "a", "n", "g", "e", "s" >>

T_record   == << "r", "e", "c", "o", "r", "d" >>
T_termlist == << "t", "e", "r", "m", "l", "i", "s", "t" >>
T_postlist == << "p", "o", "s", "t", "l", "i", "s", "t" >>
T_position == << "p", "o", "s", "i", "t", "i", "o", "n" >>
T_spelling == << "s", "p", "e", "l", "l", "i", "n", "g" >>
T_synonym  == << "s", "y", "n", "o", "n", "y", "m" >>
T_docdata  == << "d", "o", "c", "d", "a", "t", "a" >>

\* const char * tables[] of the chert branch and of the glass branch.
\* The chert tables with postlist checked before termlist and record.
ChertTables_PostlistFirst == << T_postlist, T_record, T_termlist, T_position,
                                T_spelling, T_synonym >>

ChertTables == << T_record, T_termlist, T_postlist, T_position,
                  T_spelling, T_synonym >>
\* The glass tables without docdata.
GlassTables_NoDocdata == << T_termlist, T_postlist, T_position, T_spelling,
                            T_synonym >>

GlassTables == << T_docdata, T_termlist, T_postlist, T_position,
                  T_spelling, T_synonym >>

----------------------------------------------------------------------------
(* The filesystem. *)

\* Name resolution: repeated slashes count as one.
RECURSIVE Norm(_)
Norm(s) ==
    IF Len(s) < 2 THEN s
    ELSE IF s[1] = "/" /\ s[2] = "/" THEN Norm(Tail(s))
    ELSE << s[1] >> \o Norm(Tail(s))

\* stat(name, &sb) == 0
stat(name) == Norm(name) \in files

\* file_exists(name)
file_exists(name) == Norm(name) \in files

----------------------------------------------------------------------------
(* The runs the model starts from. *)

Dir_d  == << "d" >>

\* The paths handed to check: a directory, and a table named with and
\* without a directory component, with each suffix the code strips.
Paths ==
    { << "d" >>,
      << "d", "/", "t" >>, << "d", "/", "t", "." >>,
      << "d", "/", "t" >> \o DotDB, << "d", "/", "t" >> \o DotGlass,
      << "d", "/", "T" >> \o DotDB,
      << "t" >>, << "t", "." >>, << "t" >> \o DotDB, << "t" >> \o DotGlass }

AllMarkers == { iamchert, iamglass, iamflint, iambrass, record_DB }

\* The markers, in directory d (the name d followed by the marker).
MarkersIn(d) == { d \o m : m \in AllMarkers }

\* The chert tables that are created lazily, as files of directory d.
LazyTableFiles(d) ==
    { d \o << "/" >> \o tb \o DotDB :
        tb \in { T_termlist, T_position, T_spelling, T_synonym } }

\* The chert tables that every chert database has, as files of directory d.
MandatoryTableFiles(d) ==
    { d \o << "/" >> \o tb \o DotDB : tb \in { T_record, T_postlist } }

ChangesFiles(d) == { d \o Changes \o str(n) : n \in 1..MaxRev }

\* The table files a bare path can resolve to.
SiblingFiles(base) == { base \o DotDB, base \o DotGlass }

\* The optional files of the format the markers m of directory d select:
\* the table files of a chert (or flint, or brass) directory, the
\* changes files of a glass directory, and, in a directory without markers,
\* the files that make its name a table name.
OptionalFiles(d, m) ==
    IF m \in { { d \o iamchert }, { d \o iamflint }, { d \o iambrass } }
    THEN LazyTableFiles(d) \cup MandatoryTableFiles(d)
    ELSE IF m = { d \o iamglass } THEN ChangesFiles(d)
    ELSE IF m = {} THEN SiblingFiles(d) \cup { iamflint, iambrass }
    ELSE {}

\* The filesystems a run on path p starts from.  For the directory d: every
\* combination of markers, and for a directory of one format every
\* combination of that format's optional files.  For a table of directory
\* d, and for a table of the current directory: every combination of the
\* markers of the directory (and of the root) and of the table's files.
Layouts(p) ==
    IF p = Dir_d
    THEN UNION { { m \cup x : x \in SUBSET OptionalFiles(Dir_d, m) } :
                   m \in SUBSET MarkersIn(Dir_d) }
    ELSE IF p[1] = "d"
    THEN { m \cup x :
             m \in SUBSET MarkersIn(Dir_d),
             x \in SUBSET SiblingFiles(<< "d", "/", "t" >>) }
    ELSE { m \cup x :
             m \in SUBSET { Tail(iamflint), Tail(iambrass), Tail(record_DB),
                            iamflint, iambrass },
             x \in SUBSET SiblingFiles(<< "t" >>) }

\* The option words a caller passes: none, and an output-only option
\* without and with DBCHECK_FIX.
OptsArgs == { 0, DBCHECK_SHORT_TREE, DBCHECK_FIX + DBCHECK_SHORT_TREE }

\* The last docids a database reports: an empty database, the two values
\* around the threshold of reserve_doclens, and the largest docid.
DocIds == { Docid(0), Docid(Count(DoclensThreshold) - 1), DoclensThreshold,
            MaxDocid }

\* trace: where the open of the database failed, what reserve_doclens did,
\* and the error counts by origin.
\* reserve: status "not_called", "reserved", "too_large", "bad_alloc" or
\* "length_error"; attempted: doclens.reserve was called; asked: the element
\* count it was called with; last: the last_docid reserve_doclens was given.
NoTrace == [ open_fail |-> "none",
             reserve |-> [ status |-> "not_called", attempted |-> FALSE,
                           asked |-> 0, last |-> Docid(0) ],
             open_errors |-> 0, check_errors |-> 0, changes_errors |-> 0 ]

\* The state at the entry of check, whatever the build.
InitRun ==
    /\ path \in Paths
    /\ opts_arg \in OptsArgs
    /\ out \in BOOLEAN
    /\ files \in Layouts(path)
    /\ pc = "start"
    /\ opts = opts_arg
    /\ errors = 0
    /\ doclens = 0
    /\ db_last_docid = Docid(0)
    /\ rev = 0
    /\ pre_table_check_errors = 0
    /\ t = 1
    /\ version_file = [ revision |-> 0, last_docid |-> Docid(0) ]
    /\ r = 0
    /\ backend = "UNKNOWN"
    /\ filename = << >>
    /\ dir = << >>
    /\ tablename = << >>
    /\ calls = << >>
    /\ output = << >>
    /\ version_record = "untouched"
    /\ exc = "none"
    /\ result = 0
    /\ trace = NoTrace

\* The default build: both backends are compiled in.
Init ==
    /\ build = [ chert |-> TRUE, glass |-> TRUE ]
    /\ InitRun

\* Any build: each backend is compiled in or not.
InitAnyBuild ==
    /\ build \in [ chert : BOOLEAN, glass : BOOLEAN ]
    /\ InitRun

----------------------------------------------------------------------------
(* Build configuration (config.h). *)

XAPIAN_HAS_CHERT_BACKEND == build.chert
XAPIAN_HAS_GLASS_BACKEND == build.glass

----------------------------------------------------------------------------
(* Logs. *)

\* A collaborator call.  where: the path or directory argument.  rev_null:
\* the revision argument is a null pointer; rev: the revision it refers to
\* otherwise (for check_glass_table, the revision of the version file).
Call(fn, table, where, rev_null, revision, o, cap, last) ==
    [ fn |-> fn, table |-> table, where |-> where, rev_null |-> rev_null,
      rev |-> revision, opts |-> o, doclens |-> cap, last_docid |-> last ]

\* *out << text, when there is a sink.
Emit(log, texts) == IF out THEN log \o texts ELSE log

Throw(e) ==
    /\ pc' = "thrown"
    /\ exc' = e

Range(s) == { s[i] : i \in DOMAIN s }

TableCheckers == { "check_chert_table", "check_glass_table" }

TableCalls == SelectSeq(calls, LAMBDA c : c.fn \in TableCheckers)

----------------------------------------------------------------------------
(* Format detection: lines 89-97, 170, 215-227. *)

\* Classify with the glass marker tested before the chert marker.
Classify_GlassFirst(p) ==
    IF stat(p \o iamglass) THEN "glass"
    ELSE IF stat(p \o iamchert) THEN "chert"
    ELSE IF stat(p \o iamflint) THEN "flint"
    ELSE IF stat(p \o iambrass) THEN "brass"
    ELSE IF stat(p \o record_DB) THEN "quartz"
    ELSE "table"

\* Classify with the brass marker tested before the flint marker.
Classify_BrassFirst(p) ==
    IF stat(p \o iamchert) THEN "chert"
    ELSE IF stat(p \o iamglass) THEN "glass"
    ELSE IF stat(p \o iambrass) THEN "brass"
    ELSE IF stat(p \o iamflint) THEN "flint"
    ELSE IF stat(p \o record_DB) THEN "quartz"
    ELSE "table"

\* The branch of the if-chain that the markers at p select.
Classify(p) ==
    IF stat(p \o iamchert) THEN "chert"
    ELSE IF stat(p \o iamglass) THEN "glass"
    ELSE IF stat(p \o iamflint) THEN "flint"
    ELSE IF stat(p \o iambrass) THEN "brass"
    ELSE IF stat(p \o record_DB) THEN "quartz"
    ELSE "table"

\* The options never masked.
MaskOpts_Never(o, sink) == o

\* if (!out) opts &= Xapian::DBCHECK_FIX;
MaskOpts(o, sink) == IF ~sink THEN BitAnd(o, DBCHECK_FIX) ELSE o

Detect ==
    /\ pc = "start"
    /\ opts' = MaskOpts(opts_arg, out)
    /\ LET c == Classify(path)
       IN  CASE c = "chert" ->
                  IF XAPIAN_HAS_CHERT_BACKEND
                  THEN pc' = "chert_open" /\ exc' = exc
                  ELSE Throw("ChertNotEnabled")
             [] c = "glass" ->
                  IF XAPIAN_HAS_GLASS_BACKEND
                  THEN pc' = "glass_open" /\ exc' = exc
                  ELSE Throw("GlassNotEnabled")
             [] c = "flint"  -> Throw("FlintRemoved")
             [] c = "brass"  -> Throw("BrassRemoved")
             [] c = "quartz" -> Throw("QuartzRemoved")
             [] OTHER        -> pc' = "bare" /\ exc' = exc
    /\ UNCHANGED << build, path, opts_arg, out, files, errors, doclens,
                    db_last_docid, rev, pre_table_check_errors, t,
                    version_file, r, backend, filename, dir, tablename,
                    calls, output, version_record, result, trace >>

----------------------------------------------------------------------------
(* A single table: lines 228-299. *)

\* Lines 231-241: trim ".", ".DB" or ".glass".
StripSuffix(p) ==
    IF endswith(p, << "." >>)
    THEN [ filename |-> Chop(p, 1), backend |-> "UNKNOWN" ]
    ELSE IF endswith(p, DotDB)
    THEN [ filename |-> Chop(p, Len(DotDB)), backend |-> "CHERT" ]
    ELSE IF endswith(p, DotGlass)
    THEN [ filename |-> Chop(p, Len(DotGlass)), backend |-> "GLASS" ]
    ELSE [ filename |-> p, backend |-> "UNKNOWN" ]

\* ProbeBackend with the ".glass" file probed before the ".DB" file.
ProbeBackend_GlassFirst(fname, b) ==
    IF b # "UNKNOWN" THEN b
    ELSE IF stat(fname \o DotGlass) THEN "GLASS"
    ELSE IF stat(fname \o DotDB) THEN "CHERT"
    ELSE "NONE"

\* Lines 243-252: the backend of a name without a suffix, "NONE" when the
\* DatabaseError is thrown.
ProbeBackend(fname, b) ==
    IF b # "UNKNOWN" THEN b
    ELSE IF stat(fname \o DotDB) THEN "CHERT"
    ELSE IF stat(fname \o DotGlass) THEN "GLASS"
    ELSE "NONE"

\* Lines 254-261: string dir(filename, 0, p).
DirOf(fname) == SubSeq(fname, 1, find_last_of(fname, "/"))

\* Lines 263-266.
TableNameOf(fname) ==
    ToLower(SubSeq(fname, find_last_of(fname, "/") + 1, Len(fname)))

ResolveBare ==
    /\ pc = "bare"
    /\ LET s == StripSuffix(path)
           b == ProbeBackend(s.filename, s.backend)
       IN  /\ filename' = s.filename
           /\ IF b = "NONE"
              THEN /\ Throw("NotADatabase")
                   /\ UNCHANGED << backend, dir, tablename >>
              ELSE /\ backend' = b
                   /\ dir' = DirOf(s.filename)
                   /\ tablename' = TableNameOf(s.filename)
                   /\ pc' = IF b = "GLASS" THEN "single_glass"
                                           ELSE "single_chert"
                   /\ exc' = exc
    /\ UNCHANGED << build, path, opts_arg, out, files, opts, errors, doclens,
                    db_last_docid, rev, pre_table_check_errors, t,
                    version_file, r, calls, output, version_record, result,
                    trace >>

\* SingleTableLastDocid left at zero instead of the largest docid.
SingleTableLastDocid_Zero == Docid(0)

\* Lines 275 and 295: the last docid of a single-table check.
SingleTableLastDocid == MaxDocid

\* Lines 268-279.
SingleGlass ==
    /\ pc = "single_glass"
    /\ IF ~XAPIAN_HAS_GLASS_BACKEND
       THEN /\ Throw("GlassNotEnabled")
            /\ UNCHANGED << version_file, db_last_docid, errors, calls,
                            trace >>
       ELSE \E rv \in 0..MaxRev, ld \in DocIds, e \in 0..MaxTableErrors :
              /\ version_file' = [ revision |-> rv, last_docid |-> ld ]
              /\ db_last_docid' = SingleTableLastDocid
              /\ errors' = e
              /\ calls' = Append(calls,
                     Call("check_glass_table", tablename, dir, FALSE, rv,
                          opts, doclens, SingleTableLastDocid))
              /\ trace' = [ trace EXCEPT !.check_errors = @ + e ]
              /\ pc' = "return"
              /\ exc' = exc
    /\ UNCHANGED << build, path, opts_arg, out, files, opts, doclens, rev,
                    pre_table_check_errors, t, r, backend, filename, dir,
                    tablename, output, version_record, result >>

\* RetiredDBFormat without the test of iambrass.
RetiredDBFormat_FlintOnly(d) ==
    IF stat(d \o iamflint) THEN "FlintRemoved" ELSE "none"

\* Lines 283-290: the marker of a retired format that used ".DB", if the
\* directory part of the name holds one.
RetiredDBFormat(d) ==
    IF stat(d \o iamflint) THEN "FlintRemoved"
    ELSE IF stat(d \o iambrass) THEN "BrassRemoved"
    ELSE "none"

\* SingleChert with the table checked before the tests of the retired
\* formats and of the build.
SingleChert_CheckFirst ==
    /\ pc = "single_chert"
    /\ \E e \in 0..MaxTableErrors :
         /\ db_last_docid' = SingleTableLastDocid
         /\ errors' = e
         /\ calls' = Append(calls,
                Call("check_chert_table", tablename, filename, TRUE, 0,
                     opts, doclens, SingleTableLastDocid))
         /\ trace' = [ trace EXCEPT !.check_errors = @ + e ]
    /\ IF RetiredDBFormat(dir) # "none"
       THEN Throw(RetiredDBFormat(dir))
       ELSE IF ~XAPIAN_HAS_CHERT_BACKEND
       THEN Throw("ChertNotEnabled")
       ELSE pc' = "return" /\ exc' = exc
    /\ UNCHANGED << build, path, opts_arg, out, files, opts, doclens, rev,
                    pre_table_check_errors, t, version_file, r, backend,
                    filename, dir, tablename, output, version_record,
                    result >>

\* Lines 280-298.
SingleChert ==
    /\ pc = "single_chert"
    /\ IF RetiredDBFormat(dir) # "none"
       THEN /\ Throw(RetiredDBFormat(dir))
            /\ UNCHANGED << db_last_docid, errors, calls, trace >>
       ELSE IF ~XAPIAN_HAS_CHERT_BACKEND
       THEN /\ Throw("ChertNotEnabled")
            /\ UNCHANGED << db_last_docid, errors, calls, trace >>
       ELSE \E e \in 0..MaxTableErrors :
              /\ db_last_docid' = SingleTableLastDocid
              /\ errors' = e
              /\ calls' = Append(calls,
                     Call("check_chert_table", tablename, filename, TRUE, 0,
                          opts, doclens, SingleTableLastDocid))
              /\ trace' = [ trace EXCEPT !.check_errors = @ + e ]
              /\ pc' = "return"
              /\ exc' = exc
    /\ UNCHANGED << build, path, opts_arg, out, files, opts, doclens, rev,
                    pre_table_check_errors, t, version_file, r, backend,
                    filename, dir, tablename, output, version_record,
                    result >>

\* Line 301.
Return ==
    /\ pc = "return"
    /\ result' = errors
    /\ pc' = "done"
    /\ UNCHANGED << build, path, opts_arg, out, files, opts, errors, doclens,
                    db_last_docid, rev, pre_table_check_errors, t,
                    version_file, r, backend, filename, dir, tablename,
                    calls, output, version_record, exc, trace >>

----------------------------------------------------------------------------
(* reserve_doclens: lines 54-81. *)

Msg(text, table) == [ text |-> text, table |-> table ]

SkipTooLarge   == Msg("would use more than 1GB of memory, so skipping that check", << >>)
SkipBadAlloc   == Msg("Couldn't allocate enough memory, so skipping that check", << >>)
SkipLengthErr  == Msg("Couldn't allocate enough elements, so skipping that check", << >>)
SkipMessages   == { SkipTooLarge, SkipBadAlloc, SkipLengthErr }
OpenFailedMsg  == Msg("Database couldn't be opened for reading", << >>)

\* What doclens.reserve can do: return, throw std::bad_alloc, or throw
\* std::length_error.
AllocOutcomes == { "ok", "bad_alloc", "length_error" }

\* reserve_doclens with > in place of >= at line 58.
reserve_doclens_StrictThreshold(cap, last_docid, alloc) ==
    LET n == Count(DocidSucc(last_docid))
    IN  IF DocidGE(last_docid, DocidSucc(DoclensThreshold))
        THEN [ doclens |-> cap, status |-> "too_large", attempted |-> FALSE,
               asked |-> 0, text |-> << SkipTooLarge >> ]
        ELSE IF alloc = "ok"
        THEN [ doclens |-> IF n > cap THEN n ELSE cap, status |-> "reserved",
               attempted |-> TRUE, asked |-> n, text |-> << >> ]
        ELSE [ doclens |-> cap, status |-> alloc, attempted |-> TRUE,
               asked |-> n,
               text |-> IF alloc = "bad_alloc" THEN << SkipBadAlloc >>
                                               ELSE << SkipLengthErr >> ]

\* reserve_doclens without the return of line 64: after the message the
\* reservation is made all the same.
reserve_doclens_NoReturn(cap, last_docid, alloc) ==
    LET n == Count(DocidSucc(last_docid))
    IN  IF DocidGE(last_docid, DoclensThreshold)
        THEN [ doclens |-> IF n > cap THEN n ELSE cap,
               status |-> "too_large", attempted |-> TRUE, asked |-> n,
               text |-> << SkipTooLarge >> ]
        ELSE IF alloc = "ok"
        THEN [ doclens |-> IF n > cap THEN n ELSE cap, status |-> "reserved",
               attempted |-> TRUE, asked |-> n, text |-> << >> ]
        ELSE [ doclens |-> cap, status |-> alloc, attempted |-> TRUE,
               asked |-> n,
               text |-> IF alloc = "bad_alloc" THEN << SkipBadAlloc >>
                                               ELSE << SkipLengthErr >> ]

\* reserve_doclens with an empty handler for std::bad_alloc.
reserve_doclens_SilentBadAlloc(cap, last_docid, alloc) ==
    LET n == Count(DocidSucc(last_docid))
    IN  IF DocidGE(last_docid, DoclensThreshold)
        THEN [ doclens |-> cap, status |-> "too_large", attempted |-> FALSE,
               asked |-> 0, text |-> << SkipTooLarge >> ]
        ELSE IF alloc = "ok"
        THEN [ doclens |-> IF n > cap THEN n ELSE cap, status |-> "reserved",
               attempted |-> TRUE, asked |-> n, text |-> << >> ]
        ELSE [ doclens |-> cap, status |-> alloc, attempted |-> TRUE,
               asked |-> n,
               text |-> IF alloc = "bad_alloc" THEN << >>
                                               ELSE << SkipLengthErr >> ]

\* cap: the capacity of doclens before the call; alloc: what the allocator
\* does if it is asked.  The result: the capacity afterwards, what happened
\* (status), whether doclens.reserve was called (attempted), the number of
\* elements asked for (asked) and the message for the sink.
reserve_doclens(cap, last_docid, alloc) ==
    IF DocidGE(last_docid, DoclensThreshold)
    THEN [ doclens |-> cap, status |-> "too_large", attempted |-> FALSE,
           asked |-> 0, text |-> << SkipTooLarge >> ]
    ELSE LET n == Count(DocidSucc(last_docid))
         IN  CASE alloc = "ok" ->
                    [ doclens |-> IF n > cap THEN n ELSE cap,
                      status |-> "reserved", attempted |-> TRUE,
                      asked |-> n, text |-> << >> ]
               [] alloc = "bad_alloc" ->
                    [ doclens |-> cap, status |-> "bad_alloc",
                      attempted |-> TRUE, asked |-> n,
                      text |-> << SkipBadAlloc >> ]
               [] alloc = "length_error" ->
                    [ doclens |-> cap, status |-> "length_error",
                      attempted |-> TRUE, asked |-> n,
                      text |-> << SkipLengthErr >> ]

ReserveCall(last, res) ==
    Call("reserve_doclens", << >>, << >>, TRUE, 0, 0, res.doclens, last)

ReserveTrace(last, res) ==
    [ status |-> res.status, attempted |-> res.attempted,
      asked |-> res.asked, last |-> last ]

----------------------------------------------------------------------------
(* A whole chert database: lines 103-168. *)

\* Where the try block of lines 109-115 can leave by a Xapian::Error.
OpenOutcomes == { "ok", "ctor", "get_lastdocid", "get_revision_number" }

\* LastDocidAfterOpen without the placeholder of line 106.
LastDocidAfterOpen_NoPlaceholder(o, ld) == ld

\* Lines 106, 112: db_last_docid after the try block; ld is what
\* get_lastdocid returns when it returns.
LastDocidAfterOpen(o, ld) ==
    IF o \in { "ctor", "get_lastdocid" } THEN MaxDocid ELSE ld

\* Line 113 is reached.
ReserveReached(o) == o \in { "ok", "get_revision_number" }

\* Lines 107, 114: rev after the try block.
RevAfterOpen(o, rv) == IF o = "ok" THEN rv ELSE 0

\* Lines 115-122: the errors added by the handler.
OpenErrors(o) == IF o = "ok" THEN 0 ELSE 1

ChertOpen ==
    /\ pc = "chert_open"
    /\ \E o \in OpenOutcomes, ld \in DocIds, rv \in 0..MaxRev,
          alloc \in AllocOutcomes :
         LET res == reserve_doclens(doclens, ld, alloc)
         IN  /\ db_last_docid' = LastDocidAfterOpen(o, ld)
             /\ rev' = RevAfterOpen(o, rv)
             /\ doclens' = IF ReserveReached(o) THEN res.doclens ELSE doclens
             /\ calls' = IF ReserveReached(o)
                         THEN Append(calls, ReserveCall(ld, res))
                         ELSE calls
             /\ errors' = errors + OpenErrors(o)
             /\ pre_table_check_errors' = errors + OpenErrors(o)
             /\ output' = Emit(output,
                    (IF ReserveReached(o) THEN res.text ELSE << >>)
                    \o (IF o = "ok" THEN << >> ELSE << OpenFailedMsg >>))
             /\ trace' = [ trace EXCEPT
                    !.open_fail = o,
                    !.reserve = IF ReserveReached(o) THEN ReserveTrace(ld, res)
                                 ELSE @,
                    !.open_errors = @ + OpenErrors(o) ]
    /\ t' = 1
    /\ pc' = "chert_table"
    /\ UNCHANGED << build, path, opts_arg, out, files, opts, version_file, r,
                    backend, filename, dir, tablename, version_record, exc,
                    result >>

\* The file test applied to every table, record and postlist included.
ChertTableSkipped_AllTables(tb, table) == ~file_exists(table \o DotDB)

\* Lines 142-155: the table is skipped because its file does not exist.
ChertTableSkipped(tb, table) ==
    /\ tb # T_record
    /\ tb # T_postlist
    /\ ~file_exists(table \o DotDB)

\* Lines 146-150.
AbsentMsg(tb) ==
    IF tb = T_termlist THEN Msg("Not present.", tb)
    ELSE Msg("Lazily created, and not yet used.", tb)

\* One iteration of the loop of lines 135-158.
ChertTable ==
    /\ pc = "chert_table"
    /\ t <= Len(ChertTables)
    /\ LET tb == ChertTables[t]
           table == path \o << "/" >> \o tb
       IN  IF ChertTableSkipped(tb, table)
           THEN /\ output' = Emit(output, << Msg("header", tb), AbsentMsg(tb) >>)
                /\ UNCHANGED << errors, calls, trace >>
           ELSE \E e \in 0..MaxTableErrors :
                  /\ output' = Emit(output, << Msg("header", tb) >>)
                  /\ errors' = errors + e
                  /\ calls' = Append(calls,
                         Call("check_chert_table", tb, table, FALSE, rev,
                              opts, doclens, db_last_docid))
                  /\ trace' = [ trace EXCEPT !.check_errors = @ + e ]
    /\ t' = t + 1
    /\ pc' = IF t = Len(ChertTables) THEN "chert_fix" ELSE "chert_table"
    /\ UNCHANGED << build, path, opts_arg, out, files, opts, doclens,
                    db_last_docid, rev, pre_table_check_errors, version_file,
                    r, backend, filename, dir, tablename, version_record,
                    exc, result >>

\* The repair attempted whenever FIX is set, whatever the tables reported.
FixAttempted_IgnoreErrors(errs, before, o) == BitAnd(o, DBCHECK_FIX) # 0

\* The repair attempted only when the whole run has counted no error.
FixAttempted_ZeroErrors(errs, before, o) ==
    errs = 0 /\ BitAnd(o, DBCHECK_FIX) # 0

\* Line 160: the version file is looked at.
FixAttempted(errs, before, o) ==
    errs = before /\ BitAnd(o, DBCHECK_FIX) # 0

\* Lines 160-168.  valid: iam.read_and_check() returns; otherwise it
\* throws Xapian::DatabaseError and iam.create() runs.
ChertFix ==
    /\ pc = "chert_fix"
    /\ IF FixAttempted(errors, pre_table_check_errors, opts)
       THEN \E valid \in BOOLEAN :
              /\ calls' = calls
                    \o << Call("ChertVersion::read_and_check", << >>, path,
                               TRUE, 0, opts, doclens, db_last_docid) >>
                    \o (IF valid THEN << >>
                        ELSE << Call("ChertVersion::create", << >>, path,
                                     TRUE, 0, opts, doclens, db_last_docid) >>)
              /\ version_record' = IF valid THEN version_record ELSE "created"
       ELSE UNCHANGED << calls, version_record >>
    /\ pc' = "return"
    /\ UNCHANGED << build, path, opts_arg, out, files, opts, errors, doclens,
                    db_last_docid, rev, pre_table_check_errors, t,
                    version_file, r, backend, filename, dir, tablename,
                    output, exc, result, trace >>

----------------------------------------------------------------------------
(* A whole glass database: lines 176-213. *)

\* Lines 177-187: Xapian::Database db(path) returns or throws.
GlassOpen ==
    /\ pc = "glass_open"
    /\ \E opened \in BOOLEAN :
         /\ errors' = errors + (IF opened THEN 0 ELSE 1)
         /\ output' = Emit(output,
                IF opened THEN << >> ELSE << OpenFailedMsg >>)
         /\ trace' = [ trace EXCEPT
                !.open_fail = IF opened THEN "ok" ELSE "ctor",
                !.open_errors = @ + (IF opened THEN 0 ELSE 1) ]
    /\ pc' = "glass_version"
    /\ UNCHANGED << build, path, opts_arg, out, files, opts, doclens,
                    db_last_docid, rev, pre_table_check_errors, t,
                    version_file, r, backend, filename, dir, tablename,
                    calls, version_record, exc, result >>

\* Lines 189-191: the version file is read and the loop starts at its
\* revision.
GlassReadVersion ==
    /\ pc = "glass_version"
    /\ \E rv \in 0..MaxRev, ld \in DocIds :
         /\ version_file' = [ revision |-> rv, last_docid |-> ld ]
         /\ r' = rv
    /\ pc' = "glass_changes"
    /\ UNCHANGED << build, path, opts_arg, out, files, opts, errors, doclens,
                    db_last_docid, rev, pre_table_check_errors, t, backend,
                    filename, dir, tablename, calls, output, version_record,
                    exc, result, trace >>

\* The name of the changes file of the revision after n.
ChangesFileName_OffByOne(p, n) == p \o Changes \o str(n + 1)

\* Lines 192-194.
ChangesFileName(p, n) == p \o Changes \o str(n)

\* The error counts a check of one changes file can report: the checker
\* is a collaborator with the contract
\* check(changes_file_path) -> (errors, diagnostics).
ChangesCheckResults == 0..MaxTableErrors

\* One iteration of the loop of lines 191-197.  The statement of line 196
\* is the bare call: what the checker reports is not used, so errors is
\* left alone; only the trace keeps the reported count.
GlassChangesStep ==
    /\ pc = "glass_changes"
    /\ r # 0
    /\ IF file_exists(ChangesFileName(path, r))
       THEN /\ calls' = Append(calls,
                   Call("GlassChanges::check", << >>,
                        ChangesFileName(path, r), TRUE, r, 0, doclens,
                        Docid(0)))
            /\ \E ce \in ChangesCheckResults :
                 trace' = [ trace EXCEPT !.changes_errors = @ + ce ]
       ELSE UNCHANGED << calls, trace >>
    /\ r' = r - 1
    /\ UNCHANGED << build, path, opts_arg, out, files, pc, opts, errors, doclens,
                    db_last_docid, rev, pre_table_check_errors, t,
                    version_file, backend, filename, dir, tablename, output,
                    version_record, exc, result >>

\* Lines 199-200, after the loop has ended.
GlassReserve ==
    /\ pc = "glass_changes"
    /\ r = 0
    /\ \E alloc \in AllocOutcomes :
         LET res == reserve_doclens(doclens, version_file.last_docid, alloc)
         IN  /\ db_last_docid' = version_file.last_docid
             /\ doclens' = res.doclens
             /\ calls' = Append(calls,
                    ReserveCall(version_file.last_docid, res))
             /\ output' = Emit(output, res.text)
             /\ trace' = [ trace EXCEPT
                    !.reserve = ReserveTrace(version_file.last_docid, res) ]
    /\ t' = 1
    /\ pc' = "glass_table"
    /\ UNCHANGED << build, path, opts_arg, out, files, opts, errors, rev,
                    pre_table_check_errors, version_file, r, backend,
                    filename, dir, tablename, version_record, exc, result >>

\* One iteration of the loop of lines 209-213.
GlassTable ==
    /\ pc = "glass_table"
    /\ t <= Len(GlassTables)
    /\ \E e \in 0..MaxTableErrors :
         /\ errors' = errors + e
         /\ calls' = Append(calls,
                Call("check_glass_table", GlassTables[t], path, FALSE,
                     version_file.revision, opts, doclens, db_last_docid))
         /\ trace' = [ trace EXCEPT !.check_errors = @ + e ]
    /\ t' = t + 1
    /\ pc' = IF t = Len(GlassTables) THEN "return" ELSE "glass_table"
    /\ UNCHANGED << build, path, opts_arg, out, files, opts, doclens,
                    db_last_docid, rev, pre_table_check_errors, version_file,
                    r, backend, filename, dir, tablename, output,
                    version_record, exc, result >>

----------------------------------------------------------------------------

Next ==
    \/ Detect
    \/ ResolveBare
    \/ SingleGlass
    \/ SingleChert
    \/ ChertOpen
    \/ ChertTable
    \/ ChertFix
    \/ GlassOpen
    \/ GlassReadVersion
    \/ GlassChangesStep
    \/ GlassReserve
    \/ GlassTable
    \/ Return

Spec == Init /\ [][Next]_vars

\* The runs of every build.
SpecAnyBuild == InitAnyBuild /\ [][Next]_vars

----------------------------------------------------------------------------
(* Vocabulary of the properties. *)

\* The marker m exists at the path given to check.
MarkerAtPath(m) == Norm(path \o m) \in files

Terminated == pc \in { "done", "thrown" }

\* The run is, or was, the check of a whole chert database: it is in the
\* chert branch, or has called the chert table checker with a revision.
WholeChertRun ==
    \/ pc \in { "chert_open", "chert_table", "chert_fix" }
    \/ \E i \in DOMAIN calls :
         calls[i].fn = "check_chert_table" /\ ~calls[i].rev_null

\* The run is, or was, the check of a whole glass database.
WholeGlassRun ==
    \/ pc \in { "glass_open", "glass_version", "glass_changes", "glass_table" }
    \/ \E i \in DOMAIN calls :
         calls[i].fn = "check_glass_table" /\ calls[i].where = path

\* The run treated the path as a bare table reference.
BareTableRun ==
    \/ pc \in { "bare", "single_glass", "single_chert" }
    \/ filename # << >>

\* The run ended in exception e before anything was checked or counted.
FailedWith(e) ==
    /\ pc = "thrown"
    /\ exc = e
    /\ calls = << >>
    /\ errors = 0

----------------------------------------------------------------------------
(* C1 *)

\* C1: the markers are tested in the order iamchert, iamglass, iamflint,
\* iambrass, record_DB and the first that exists decides the run, whatever
\* other markers exist: the chert whole-database check, the glass
\* whole-database check, the flint, brass or quartz error, and the bare
\* table reference only when no marker exists.
C1_FirstMarkerDecides ==
    pc # "start" =>
      IF MarkerAtPath(iamchert)
      THEN WholeChertRun /\ ~WholeGlassRun /\ ~BareTableRun /\ exc = "none"
      ELSE IF MarkerAtPath(iamglass)
      THEN WholeGlassRun /\ ~WholeChertRun /\ ~BareTableRun /\ exc = "none"
      ELSE IF MarkerAtPath(iamflint) THEN FailedWith("FlintRemoved")
      ELSE IF MarkerAtPath(iambrass) THEN FailedWith("BrassRemoved")
      ELSE IF MarkerAtPath(record_DB) THEN FailedWith("QuartzRemoved")
      ELSE BareTableRun /\ ~WholeChertRun /\ ~WholeGlassRun

\* A chert whole-database check that ran to its end in a directory that
\* also holds the glass marker and a retired marker.
C1_Witness ==
    /\ pc = "done"
    /\ MarkerAtPath(iamchert)
    /\ MarkerAtPath(iamglass)
    /\ MarkerAtPath(iamflint)
    /\ WholeChertRun

----------------------------------------------------------------------------
(* C2 *)

\* C2, as claimed: whenever iamflint exists at the path, check fails with
\* the flint error, whatever the options and whatever else exists.
C2_Original ==
    (pc # "start" /\ MarkerAtPath(iamflint)) => FailedWith("FlintRemoved")

\* C2, amended: whenever iamflint exists at the path and neither iamchert
\* nor iamglass does, check fails with the flint error before anything is
\* checked, whatever the options and whatever other files exist.
C2_FlintUnlessWholeDatabase ==
    ( /\ pc # "start"
      /\ MarkerAtPath(iamflint)
      /\ ~MarkerAtPath(iamchert)
      /\ ~MarkerAtPath(iamglass) ) => FailedWith("FlintRemoved")

\* The flint error, raised with DBCHECK_FIX set, in a directory that also
\* holds iambrass and record_DB.
C2_Witness ==
    /\ FailedWith("FlintRemoved")
    /\ MarkerAtPath(iamflint)
    /\ MarkerAtPath(iambrass)
    /\ MarkerAtPath(record_DB)
    /\ BitAnd(opts_arg, DBCHECK_FIX) # 0

----------------------------------------------------------------------------
(* Vocabulary of the properties about bare table references. *)

NoMarkerAtPath == \A m \in AllMarkers : ~MarkerAtPath(m)

\* The path without a trailing "."
BaseOfPath == IF endswith(path, << "." >>) THEN Chop(path, 1) ELSE path

\* The path names a chert table: by its suffix ".DB", or, having neither
\* ".DB" nor ".glass", because <base>.DB exists.
ResolvesToChert ==
    /\ NoMarkerAtPath
    /\ \/ endswith(path, DotDB)
       \/ /\ ~endswith(path, DotGlass)
          /\ Norm(BaseOfPath \o DotDB) \in files

\* The marker m exists in the directory that contains the table the path
\* names: the directory in front of the last "/", or the current directory
\* when the path has no "/".
InContainingDir(m) ==
    LET p == find_last_of(path, "/")
    IN  IF p = 0 THEN Tail(m) \in files
        ELSE Norm(SubSeq(path, 1, p - 1) \o m) \in files

\* The marker m exists under the prefix of the path: the text up to and
\* including its last "/".  The prefix of a path without "/" is empty and
\* the name formed is /m, a file of the root directory.
UnderPrefix(m) ==
    Norm(SubSeq(path, 1, find_last_of(path, "/")) \o m) \in files

RetiredError(m) ==
    CASE m = iamflint  -> "FlintRemoved"
      [] m = iambrass  -> "BrassRemoved"
      [] m = record_DB -> "QuartzRemoved"

----------------------------------------------------------------------------
(* C3 *)

----------------------------------------------------------------------------
(* C4 *)

\* C4, as claimed: a bare table reference that resolves to chert and
\* whose containing directory holds iamflint or iambrass ends in the flint
\* error (tested first) or the brass error and check_chert_table is never
\* called, for every form of the path, also one without a directory part.
C4_Claim ==
    ( /\ ResolvesToChert
      /\ Terminated
      /\ InContainingDir(iamflint) \/ InContainingDir(iambrass) )
    => FailedWith(IF InContainingDir(iamflint) THEN "FlintRemoved"
                                              ELSE "BrassRemoved")

----------------------------------------------------------------------------
(* C5 *)

\* C5: with no marker at the path, ".DB" selects chert and ".glass" selects
\* glass whatever files exist; a trailing "." or no suffix leaves the
\* backend to the probe of <base>.DB, then <base>.glass, so chert wins when
\* both exist; when neither exists check fails with "Not a Xapian database
\* or database table" and no table checker is called.  A run that reaches
\* its table check calls the checker of the selected backend.
C5_BackendOfBarePath ==
    (NoMarkerAtPath /\ pc \notin { "start", "bare" }) =>
      LET selected ==
            IF endswith(path, DotDB) THEN "CHERT"
            ELSE IF endswith(path, DotGlass) THEN "GLASS"
            ELSE IF Norm(BaseOfPath \o DotDB) \in files THEN "CHERT"
            ELSE IF Norm(BaseOfPath \o DotGlass) \in files THEN "GLASS"
            ELSE "NONE"
      IN  IF selected = "NONE"
          THEN FailedWith("NotADatabase")
          ELSE /\ backend = selected
               /\ exc # "NotADatabase"
               /\ \A i \in DOMAIN calls :
                    calls[i].fn = IF selected = "CHERT"
                                  THEN "check_chert_table"
                                  ELSE "check_glass_table"

\* A finished chert table check for the path d/t. when both d/t.DB and
\* d/t.glass exist.
C5_Witness ==
    /\ path = << "d", "/", "t", "." >>
    /\ NoMarkerAtPath
    /\ << "d", "/", "t" >> \o DotDB \in files
    /\ << "d", "/", "t" >> \o DotGlass \in files
    /\ pc = "done"
    /\ Len(calls) = 1
    /\ calls[1].fn = "check_chert_table"

----------------------------------------------------------------------------
(* C6 *)

\* The path without ".", ".DB" or ".glass".
TablePathOfPath ==
    IF endswith(path, DotDB) THEN Chop(path, Len(DotDB))
    ELSE IF endswith(path, DotGlass) THEN Chop(path, Len(DotGlass))
    ELSE BaseOfPath

\* The path up to and including its last "/".
PrefixOfPath == SubSeq(path, 1, find_last_of(path, "/"))

\* A single-table check that returned.
SingleTableDone == pc = "done" /\ BareTableRun

\* What C6 and its amendment share: one collaborator call, a table check,
\* with the largest docid and a doclens array that was never reserved,
\* whose error count is what check returns.
SingleTableCall ==
    /\ Len(calls) = 1
    /\ calls[1].fn \in TableCheckers
    /\ calls[1].last_docid = MaxDocid
    /\ calls[1].doclens = 0
    /\ trace.reserve.status = "not_called"
    /\ result = trace.check_errors
    /\ result = errors

\* C6, as claimed: in single-table mode, for both backends, the one table
\* check gets the largest docid, no surrounding directory (the table's own
\* path), a null revision and an unreserved doclens array, and check
\* returns its count.
C6_Original ==
    SingleTableDone =>
      /\ SingleTableCall
      /\ calls[1].rev_null
      /\ calls[1].where = TablePathOfPath

\* C6, amended: in single-table mode the table checker is called exactly
\* once, with the largest docid and an unreserved doclens array, and check
\* returns that call's count; check_chert_table gets the table's own path
\* and a null revision, check_glass_table gets the directory prefix of the
\* path and the version file read from it.
C6_SingleTableCheck ==
    SingleTableDone =>
      /\ SingleTableCall
      /\ calls[1].fn = "check_chert_table" =>
            /\ calls[1].rev_null
            /\ calls[1].where = TablePathOfPath
      /\ calls[1].fn = "check_glass_table" =>
            /\ ~calls[1].rev_null
            /\ calls[1].rev = version_file.revision
            /\ calls[1].where = PrefixOfPath

\* A single glass table check that returned one error.
C6_Witness ==
    /\ SingleTableDone
    /\ calls[1].fn = "check_glass_table"
    /\ calls[1].where = << "d", "/" >>
    /\ result = 1

----------------------------------------------------------------------------
(* C7 *)

ReserveCalled == trace.reserve.status # "not_called"

BelowThreshold(d) == ~DocidGE(d, DoclensThreshold)

\* C7, as claimed: below the threshold the allocator succeeds and the
\* capacity is at least last_docid + 1; at or above it reserve_doclens
\* returns without attempting the reservation.
C7_Original ==
    ReserveCalled =>
      IF BelowThreshold(trace.reserve.last)
      THEN /\ trace.reserve.status = "reserved"
           /\ doclens >= Count(trace.reserve.last) + 1
      ELSE /\ trace.reserve.status = "too_large"
           /\ ~trace.reserve.attempted

\* C7, amended: below the threshold the reservation of last_docid + 1
\* elements (which does not overflow) is attempted, and the capacity
\* afterwards is at least last_docid + 1 unless the allocator throws
\* std::bad_alloc or std::length_error, in which case nothing is reserved;
\* at or above the threshold reserve_doclens returns without attempting
\* the reservation.
C7_ReserveBelowThreshold ==
    ReserveCalled =>
      IF BelowThreshold(trace.reserve.last)
      THEN /\ trace.reserve.attempted
           /\ trace.reserve.asked = Count(trace.reserve.last) + 1
           /\ \/ /\ trace.reserve.status = "reserved"
                 /\ doclens >= Count(trace.reserve.last) + 1
              \/ /\ trace.reserve.status \in { "bad_alloc", "length_error" }
                 /\ doclens = 0
      ELSE /\ trace.reserve.status = "too_large"
           /\ ~trace.reserve.attempted
           /\ doclens = 0

\* A reservation for the largest last_docid below the threshold.
C7_Witness ==
    /\ trace.reserve.status = "reserved"
    /\ DocidSucc(trace.reserve.last) = DoclensThreshold
    /\ doclens = Count(DoclensThreshold)

----------------------------------------------------------------------------
(* C8 *)

Skipped == trace.reserve.status \in { "too_large", "bad_alloc", "length_error" }

\* The names of the tables checked so far, in order.
TablesChecked == [ i \in DOMAIN TableCalls |-> TableCalls[i].table ]

\* The tables a whole-database run checks: all six of a glass database,
\* and of a chert database record, postlist and the tables whose file
\* exists.
TablesToCheck ==
    IF MarkerAtPath(iamchert)
    THEN SelectSeq(ChertTables,
           LAMBDA tb : \/ tb \in { T_record, T_postlist }
                       \/ Norm(path \o << "/" >> \o tb \o DotDB) \in files)
    ELSE GlassTables

TablesDone == pc \in { "chert_fix", "return", "done" }

\* C8: whichever cause made reserve_doclens skip, no error is counted for
\* it (the count is the open failures plus what the table checks
\* returned), no exception leaves check, and the run goes on as it would
\* otherwise: the tables of the database are checked in their order, each
\* with the last_docid the allocator was given and an unreserved array.
C8_SkipChangesNothingElse ==
    Skipped =>
      /\ pc # "thrown"
      /\ exc = "none"
      /\ errors = trace.open_errors + trace.check_errors
      /\ doclens = 0
      /\ \A i \in DOMAIN TableCalls :
           /\ TableCalls[i].doclens = 0
           /\ TableCalls[i].last_docid = trace.reserve.last
      /\ Len(TablesChecked) <= Len(TablesToCheck)
      /\ TablesChecked = SubSeq(TablesToCheck, 1, Len(TablesChecked))
      /\ TablesDone => TablesChecked = TablesToCheck

\* A glass run that ended after std::length_error in the reservation.
C8_Witness ==
    /\ pc = "done"
    /\ trace.reserve.status = "length_error"
    /\ WholeGlassRun
    /\ Len(TableCalls) = 6

----------------------------------------------------------------------------
(* C9 *)

\* The postlist check of a whole-database run was given an array that was
\* never reserved.
PostlistGotUnreserved ==
    \E i \in DOMAIN calls :
      /\ calls[i].fn \in TableCheckers
      /\ calls[i].table = T_postlist
      /\ calls[i].doclens = 0
      /\ WholeChertRun \/ WholeGlassRun

SkipReported == \E i \in DOMAIN output : output[i] \in SkipMessages

SkipMessageOf(status) ==
    CASE status = "too_large"    -> SkipTooLarge
      [] status = "bad_alloc"    -> SkipBadAlloc
      [] status = "length_error" -> SkipLengthErr

\* C9, as claimed: whenever the postlist check of a whole-database run
\* gets an unreserved array, the skip of the cross-check was reported.
C9_Original == PostlistGotUnreserved => SkipReported

\* C9, amended: in a run with an output sink in which reserve_doclens was
\* called and did not reserve, the message of that cause is written before
\* the first table check; with no sink, or when the chert open failed
\* before reserve_doclens was called, no skip message is written although
\* the postlist check gets an unreserved array.
C9_SkipReportedToSink ==
    /\ (out /\ Skipped) =>
         /\ \E i \in DOMAIN output :
              output[i] = SkipMessageOf(trace.reserve.status)
         /\ \A i \in DOMAIN output :
              output[i] \in SkipMessages =>
                output[i] = SkipMessageOf(trace.reserve.status)
    /\ (~out \/ ~Skipped) => ~SkipReported
    /\ (Skipped \/ ~ReserveCalled) =>
         \A i \in DOMAIN TableCalls :
           (WholeChertRun \/ WholeGlassRun) => TableCalls[i].doclens = 0

\* A run with a sink in which the allocation failed, the message was
\* written and the postlist check got the unreserved array.
C9_Witness ==
    /\ out
    /\ trace.reserve.status = "bad_alloc"
    /\ PostlistGotUnreserved
    /\ SkipReported

----------------------------------------------------------------------------
(* C10 *)

ChertOpenFailed ==
    /\ WholeChertRun
    /\ trace.open_fail \in { "ctor", "get_lastdocid", "get_revision_number" }

ChertTableCalls == SelectSeq(calls, LAMBDA c : c.fn = "check_chert_table")

----------------------------------------------------------------------------
(* C11 *)

\* The place of a table in the fixed order of a whole-database check:
\* record (chert) or docdata (glass) first, then termlist, postlist,
\* position, spelling, synonym.
PlaceInOrder(tb) ==
    IF tb = T_record \/ tb = T_docdata THEN 1
    ELSE IF tb = T_termlist THEN 2
    ELSE IF tb = T_postlist THEN 3
    ELSE IF tb = T_position THEN 4
    ELSE IF tb = T_spelling THEN 5
    ELSE IF tb = T_synonym  THEN 6
    ELSE 0

ReserveCallIndexes == { i \in DOMAIN calls : calls[i].fn = "reserve_doclens" }

TableCallIndexes == { i \in DOMAIN calls : calls[i].fn \in TableCheckers }

\* C11: in every whole-database run the table checker calls made so far
\* follow the fixed order record (chert) or docdata (glass), termlist,
\* postlist, position, spelling, synonym, each table at most once, so a
\* termlist check is always before the postlist check; the first table
\* checked of a chert database is record; and reserve_doclens, when it is
\* called, is called before the first table check.
C11_TablesInFixedOrder ==
    (WholeChertRun \/ WholeGlassRun) =>
      /\ \A i \in DOMAIN TableCalls :
           /\ PlaceInOrder(TableCalls[i].table) >= 1
           /\ TableCalls[i].table # (IF WholeChertRun THEN T_docdata
                                     ELSE T_record)
           /\ TableCalls[i].fn = (IF WholeChertRun THEN "check_chert_table"
                                  ELSE "check_glass_table")
      /\ \A i, j \in DOMAIN TableCalls :
           i < j => PlaceInOrder(TableCalls[i].table)
                      < PlaceInOrder(TableCalls[j].table)
      /\ (WholeChertRun /\ TableCalls # << >>) =>
           TableCalls[1].table = T_record
      /\ \A i \in ReserveCallIndexes, j \in TableCallIndexes : i < j
      /\ Cardinality(ReserveCallIndexes) <= 1

\* A chert run that ended after reserve_doclens and all six table checks,
\* termlist and postlist among them.
C11_Witness ==
    /\ pc = "done"
    /\ WholeChertRun
    /\ ReserveCallIndexes # { }
    /\ Len(TableCalls) = 6
    /\ TableCalls[2].table = T_termlist
    /\ TableCalls[3].table = T_postlist

----------------------------------------------------------------------------
(* C12 *)

\* The chert tables that are created lazily.
LazyTables == { T_termlist, T_position, T_spelling, T_synonym }

\* The file <path>/<table>.DB is absent.
TableFileAbsent(tb) == Norm(path \o << "/" >> \o tb \o DotDB) \notin files

\* The chert table loop has dealt with table tb.
TableStepDone(tb) ==
    \/ pc \in { "chert_fix", "return", "done" }
    \/ pc = "chert_table" /\ PlaceInOrder(tb) < t

\* What is reported for an absent table.
AbsentReport(tb) ==
    IF tb = T_termlist THEN "Not present."
    ELSE "Lazily created, and not yet used."

CallsFor(tb) == { i \in DOMAIN TableCalls : TableCalls[i].table = tb }

\* The step of the chert table loop at a lazily created table whose file
\* is absent.
AbsentTableStep ==
    /\ pc = "chert_table"
    /\ \E tb \in LazyTables : PlaceInOrder(tb) = t /\ TableFileAbsent(tb)

\* C12: in a whole chert run, for each of termlist, position, spelling
\* and synonym whose .DB file is absent the table checker is not called
\* and the step leaves the error count alone, termlist being reported as
\* not present and the others as lazily created (to the sink, when there
\* is one); record and postlist are checked in every run, whether or not
\* their files exist.
C12_AbsentLazyTablesSkipped ==
    /\ [](WholeChertRun =>
            /\ \A tb \in LazyTables :
                 TableFileAbsent(tb) =>
                   /\ CallsFor(tb) = { }
                   /\ (TableStepDone(tb) /\ out) =>
                        \E k \in DOMAIN output :
                          output[k] = [ text |-> AbsentReport(tb),
                                        table |-> tb ]
            /\ \A tb \in { T_record, T_postlist } :
                 TableStepDone(tb) => Cardinality(CallsFor(tb)) = 1)
    /\ [][AbsentTableStep =>
            /\ errors' = errors
            /\ calls' = calls
            /\ pc' \in { "chert_table", "chert_fix" }]_vars

\* A chert run with a sink that ended with termlist.DB, spelling.DB,
\* record.DB and postlist.DB all absent: the two lazy tables were reported
\* and skipped, record and postlist were checked.
C12_Witness ==
    /\ pc = "done"
    /\ WholeChertRun
    /\ out
    /\ \A tb \in { T_termlist, T_spelling, T_record, T_postlist } :
         TableFileAbsent(tb)
    /\ CallsFor(T_termlist) = { } /\ CallsFor(T_spelling) = { }
    /\ CallsFor(T_record) # { } /\ CallsFor(T_postlist) # { }
    /\ \E k \in DOMAIN output :
         output[k] = [ text |-> "Not present.", table |-> T_termlist ]
    /\ \E k \in DOMAIN output :
         output[k] = [ text |-> "Lazily created, and not yet used.",
                       table |-> T_spelling ]

----------------------------------------------------------------------------
(* C13 *)

\* The caller set the FIX option (bit 16 of the opts argument).
CallerFix == (opts_arg \div 16) % 2 = 1

CreateCallIndexes ==
    { i \in DOMAIN calls : calls[i].fn = "ChertVersion::create" }

ReadAndCheckCallIndexes ==
    { i \in DOMAIN calls : calls[i].fn = "ChertVersion::read_and_check" }

\* C13: in a whole chert run the metadata record is recreated only when
\* the FIX option is set, the table checks added no error and
\* read_and_check, called just before, failed; without FIX, or when a
\* table check reported an error, the record is neither validated nor
\* touched, and when it validated it is left as it was; the repair step
\* never changes the error count, so what is returned is the count of
\* failed opens plus the errors of the table checks.
C13_RepairOnlyWhenClean ==
    /\ [](WholeChertRun =>
            /\ (version_record = "created") <=> (CreateCallIndexes # { })
            /\ version_record \in { "untouched", "created" }
            /\ \A i \in CreateCallIndexes :
                 /\ CallerFix
                 /\ trace.check_errors = 0
                 /\ i > 1
                 /\ (i - 1) \in ReadAndCheckCallIndexes
                 /\ i = Len(calls)
            /\ Cardinality(CreateCallIndexes) <= 1
            /\ (~CallerFix \/ trace.check_errors > 0) =>
                 /\ version_record = "untouched"
                 /\ ReadAndCheckCallIndexes = { }
            /\ pc = "done" => result = trace.open_errors + trace.check_errors)
    /\ [][pc = "chert_fix" => errors' = errors /\ pc' = "return"]_vars

\* A chert run with FIX whose table checks found nothing, whose metadata
\* record did not validate and was recreated, and which returned 0.
C13_Witness ==
    /\ pc = "done"
    /\ WholeChertRun
    /\ CallerFix
    /\ version_record = "created"
    /\ CreateCallIndexes # { }
    /\ result = 0

----------------------------------------------------------------------------
(* C14 *)

ChangesCalls == SelectSeq(calls, LAMBDA c : c.fn = "GlassChanges::check")

ChangesCallIndexes ==
    { i \in DOMAIN calls : calls[i].fn = "GlassChanges::check" }

\* The file <path>/changes<n>, n in decimal.
ChangesFileOf(n) == path \o << "/", "c", "h", "a", "n", "g", "e", "s" >> \o str(n)

ChangesFilePresent(n) == Norm(ChangesFileOf(n)) \in files

\* The changes files of revisions hi, hi - 1, ..., lo + 1 that exist, in
\* this order.
RECURSIVE RetainedChanges(_, _)
RetainedChanges(hi, lo) ==
    IF hi <= lo THEN << >>
    ELSE (IF ChangesFilePresent(hi) THEN << ChangesFileOf(hi) >> ELSE << >>)
           \o RetainedChanges(hi - 1, lo)

\* The version record has been read.
VersionRead == pc \in { "glass_changes", "glass_table", "return", "done" }

\* The walk over the changes files is over.
ChangesWalkDone ==
    \/ pc \in { "glass_table", "return", "done" }
    \/ pc = "glass_changes" /\ r = 0

\* C14: in a whole glass run with current revision R the changes checker
\* is called once for each r in 1..R whose file <path>/changes<r> exists,
\* never for an absent one, in strictly descending order of r; a missing
\* file adds no error and does not stop the walk; each step decrements r
\* by one, so the walk ends after R steps when r is 0 (without a call
\* when R = 0); and the walk is over before reserve_doclens and the
\* first table check.
C14_ChangesWalk ==
    /\ []((WholeGlassRun /\ VersionRead) =>
            /\ r \in 0..version_file.revision
            /\ [ i \in DOMAIN ChangesCalls |-> ChangesCalls[i].where ]
                 = RetainedChanges(version_file.revision, r)
            /\ ChangesWalkDone =>
                 /\ r = 0
                 /\ Len(ChangesCalls) =
                      Cardinality({ n \in 1..version_file.revision :
                                      ChangesFilePresent(n) })
            /\ \A i \in ChangesCallIndexes :
                 \A j \in ReserveCallIndexes \cup TableCallIndexes : i < j
            /\ (ReserveCallIndexes \cup TableCallIndexes) # { } =>
                 ChangesWalkDone
            /\ version_file.revision = 0 => ChangesCalls = << >>)
    /\ [][(pc = "glass_changes" /\ r # 0) =>
            /\ r' = r - 1
            /\ pc' = "glass_changes"
            /\ ~ChangesFilePresent(r) =>
                 /\ errors' = errors
                 /\ calls' = calls]_vars
    /\ [][(pc = "glass_version") =>
            (pc' = "glass_changes" /\ r' = version_file'.revision)]_vars

\* A glass run at revision 2 that ended: changes2 is absent and changes1
\* exists, and the only changes check made is the one of changes1.
C14_Witness ==
    /\ pc = "done"
    /\ WholeGlassRun
    /\ version_file.revision = 2
    /\ ~ChangesFilePresent(2)
    /\ ChangesFilePresent(1)
    /\ Len(ChangesCalls) = 1
    /\ ChangesCalls[1].where = ChangesFileOf(1)

----------------------------------------------------------------------------
(* C15 *)

\* C15, as claimed: the count check returns is the number of failed opens
\* plus the sum of the error counts of every table check and of every
\* changes-log check of the run.
C15_Claim ==
    pc = "done" =>
      result = trace.open_errors + trace.check_errors + trace.changes_errors

----------------------------------------------------------------------------
(* C16 *)

GlassOpenFailed == WholeGlassRun /\ trace.open_fail = "ctor"

ChertVersionCallIndexes ==
    { i \in DOMAIN calls :
        calls[i].fn \in { "ChertVersion::read_and_check",
                          "ChertVersion::create" } }

\* C16: in a whole glass run a failed open adds exactly one error and
\* does not abort; the version record is read next in either case; the
\* table checker is called six times, once per table in the order
\* docdata, termlist, postlist, position, spelling, synonym, without any
\* test of the tables' files, each call with the last_docid of the version
\* record; and the metadata record is never validated or recreated, FIX
\* or not.
C16_GlassRun ==
    /\ [](WholeGlassRun =>
            /\ pc # "thrown"
            /\ exc = "none"
            /\ pc # "glass_open" =>
                 /\ trace.open_fail \in { "ok", "ctor" }
                 /\ trace.open_errors
                      = (IF trace.open_fail = "ctor" THEN 1 ELSE 0)
            /\ errors = trace.open_errors + trace.check_errors
            /\ pc \in { "return", "done" } =>
                 TablesChecked = << T_docdata, T_termlist, T_postlist,
                                    T_position, T_spelling, T_synonym >>
            /\ \A i \in DOMAIN TableCalls :
                 /\ TableCalls[i].fn = "check_glass_table"
                 /\ TableCalls[i].last_docid = version_file.last_docid
                 /\ TableCalls[i].rev = version_file.revision
                 /\ TableCalls[i].where = path
            /\ version_record = "untouched"
            /\ ChertVersionCallIndexes = { })
    /\ [][pc = "glass_open" => pc' = "glass_version"]_vars
    /\ [][pc = "glass_version" => pc' = "glass_changes"]_vars

\* A glass run with FIX whose open failed and which ended after the six
\* table checks, the metadata record untouched.
C16_Witness ==
    /\ pc = "done"
    /\ GlassOpenFailed
    /\ CallerFix
    /\ Len(TableCalls) = 6
    /\ result >= 1
    /\ version_record = "untouched"

----------------------------------------------------------------------------
(* C17 *)

\* Bit 16 (FIX) of an options value is set.
FixBitOf(o) == (o \div 16) % 2 = 1

\* Every bit of an options value other than bit 16 is clear.
OnlyFixBitIn(o) == o % 16 = 0 /\ o \div 32 = 0

\* C17: without an output sink every table checker call gets an options
\* value whose bits other than FIX are clear and whose FIX bit is the
\* caller's; with a sink every call gets the caller's options unchanged.
C17_OptionsPassedToCheckers ==
    \A i \in DOMAIN TableCalls :
      IF out
      THEN TableCalls[i].opts = opts_arg
      ELSE /\ OnlyFixBitIn(TableCalls[i].opts)
           /\ FixBitOf(TableCalls[i].opts) <=> FixBitOf(opts_arg)

\* A run without a sink, called with FIX and a presentation option, whose
\* table checker was called with FIX alone.
C17_Witness ==
    /\ ~out
    /\ opts_arg = 17
    /\ TableCalls # << >>
    /\ TableCalls[1].opts = 16

----------------------------------------------------------------------------
(* C18 *)

\* The failures of configuration, of a retired format and of a path that
\* is no database.
FatalConditions ==
    { "ChertNotEnabled", "GlassNotEnabled", "FlintRemoved", "BrassRemoved",
      "QuartzRemoved", "NotADatabase" }

CheckerCallIndexes == TableCallIndexes \cup ChangesCallIndexes

\* C18: in every build, a run that fails because the format is retired,
\* the backend is not enabled or the path is no database fails before
\* any table checker or changes checker is called and before any error is
\* counted: a run that has called a checker or counted an error never
\* ends that way.
C18_FatalBeforeAnyCheck ==
    /\ (pc = "thrown") <=> (exc \in FatalConditions)
    /\ exc \in FatalConditions \cup { "none" }
    /\ pc = "thrown" =>
         /\ CheckerCallIndexes = { }
         /\ calls = << >>
         /\ errors = 0
         /\ trace.open_errors = 0
         /\ result = 0
    /\ (CheckerCallIndexes # { } \/ errors # 0) =>
         /\ pc # "thrown"
         /\ exc = "none"

\* A build without chert in which the check of a single chert table
\* failed because the backend is not enabled, nothing called or counted.
C18_Witness ==
    /\ ~build.chert
    /\ pc = "thrown"
    /\ exc = "ChertNotEnabled"
    /\ BareTableRun
    /\ calls = << >>
    /\ errors = 0

----------------------------------------------------------------------------
(* C19 *)

\* The chert branch is past line 124, where the baseline is taken.
BaselineTaken ==
    WholeChertRun /\ pc \in { "chert_table", "chert_fix", "return", "done" }

\* C19: in a whole chert run with FIX the error of a failed open does not
\* stop the repair: the baseline is the count after the open, so once the
\* table checks are over and have added nothing, read_and_check has been
\* called (and create after it, if it failed), whether or not the open
\* failed and although the count returned is then 1.
C19_OpenErrorDoesNotInhibitRepair ==
    (BaselineTaken /\ CallerFix) =>
      /\ pre_table_check_errors = trace.open_errors
      /\ (pc \in { "return", "done" } /\ trace.check_errors = 0) =>
           /\ Cardinality(ReadAndCheckCallIndexes) = 1
           /\ errors = trace.open_errors
           /\ \A i \in CreateCallIndexes :
                (i - 1) \in ReadAndCheckCallIndexes
      /\ (pc = "done" /\ trace.check_errors = 0 /\ ChertOpenFailed) =>
           result = 1

\* A chert run with FIX whose open failed and whose table checks found
\* nothing: the metadata record was validated, recreated, and 1 returned.
C19_Witness ==
    /\ pc = "done"
    /\ ChertOpenFailed
    /\ CallerFix
    /\ trace.check_errors = 0
    /\ ReadAndCheckCallIndexes # { }
    /\ version_record = "created"
    /\ result = 1

====
